---- MODULE Spec2Model ----
(***************************************************************************)
(* Model of gitcomposer's command-line entry point `cli`                   *)
(* (src/src/gitcomposer/main.py).  One run of cli is a straight line over  *)
(* three external processes (git diff --staged, gemini chat, git commit)   *)
(* and one interactive prompt.  The environment (what is on PATH, whether  *)
(* the path holds a .git directory, what each process returns, what the    *)
(* user types) is chosen nondeterministically; the program's reaction is   *)
(* translated from the code.                                               *)
(*                                                                         *)
(* Text is a sequence of units: a unit is a single character ("m", " ",    *)
(* "\n", "d") or a fixed literal of the source kept whole.  Non-ASCII      *)
(* decoration of the literals (the emoji of lines 67 and 92) is left out.  *)
(***************************************************************************)
EXTENDS Integers, Sequences, FiniteSets, TLC

VARIABLES
    pc,             \* position of the run inside cli
    path,           \* the resolved PATH argument (an existing directory)
    geminiOnPath,   \* environment: shutil.which("gemini") finds something
    hasGit,         \* environment: os.path.isdir(path/.git)
    checkedRepo,    \* the .git existence check of line 31 was made
    calls,          \* history of subprocess.run calls, in order
    out,            \* history of click.echo output, in order
    git_diff,       \* local git_diff (line 42)
    prompt,         \* local prompt (lines 50-58)
    commit_message, \* local commit_message (line 65)
    prompts,        \* how often the confirmation prompt was shown
    answer,         \* the answer that ended click.confirm ("-" before)
    exc,            \* exception in flight inside the try block
    raised          \* exception that escaped cli ("none" if it returned)

vars == <<pc, path, geminiOnPath, hasGit, checkedRepo, calls, out, git_diff,
          prompt, commit_message, prompts, answer, exc, raised>>

----------------------------------------------------------------------------
(* Bounds of the model *)

MaxDiffLen == 2
MaxMsgLen == 3
MaxInvalid == 2

----------------------------------------------------------------------------
(* Inputs *)

Paths == {"/repo", "/work/other"}

Whitespace == {" ", "\n"}
MsgChars == {"m", " ", "\n"}
DiffChars == {"d", "\n"}

SeqsUpTo(S, n) == UNION {[1..k -> S] : k \in 0..n}

\* what git diff --staged can print
Diffs == SeqsUpTo(DiffChars, MaxDiffLen)
\* what gemini chat can print
GeminiStdouts == SeqsUpTo(MsgChars, MaxMsgLen)
\* what git commit can print
CommitStdouts == {<<>>, <<"1 file changed", "\n">>}
\* what a failing process leaves on stderr
Stderrs == {<<>>, <<"nothing to commit, working tree clean", "\n">>}
\* exit statuses of a process that ran
ReturnCodes == {0, 1, 128}
\* what the user can type at the confirmation prompt (after click's
\* lower().strip()); "EOF" stands for end of input or an interrupt
Answers == {"", "y", "yes", "n", "no", "maybe", "EOF"}

----------------------------------------------------------------------------
(* Pure helpers *)

\* separator.join(parts), as in ' '.join(e.cmd)
RECURSIVE Join(_, _)
Join(parts, sep) ==
    IF parts = <<>> THEN <<>>
    ELSE IF Len(parts) = 1 THEN parts[1]
    ELSE parts[1] \o <<sep>> \o Join(Tail(parts), sep)

RECURSIVE LStrip(_)
LStrip(s) ==
    IF s # <<>> /\ Head(s) \in Whitespace THEN LStrip(Tail(s)) ELSE s

RECURSIVE RStrip(_)
RStrip(s) ==
    IF s # <<>> /\ s[Len(s)] \in Whitespace
    THEN RStrip(SubSeq(s, 1, Len(s) - 1)) ELSE s

\* a mutant of Strip: only trailing whitespace is removed (rstrip)
StripTrailingOnly(s) == RStrip(s)

\* str.strip()
Strip(s) == LStrip(RStrip(s))

Instruction ==
    << "You are an expert programmer. Your task is to write a concise and conventional commit message based on the following git diff. The message should be in the imperative mood, for example, 'Add feature' not 'Added feature'. Do not include any preamble or backticks.",
       "\n", "\n" >>
OpenMarker == << "--- GIT DIFF ---", "\n" >>
CloseMarker == << "\n", "--- END GIT DIFF ---", "\n", "\n" >>
PromptTail == << "Commit message:" >>

\* a mutant of BuildPrompt: the diff is trimmed before it is embedded
BuildPromptTrimmed(d) ==
    Instruction \o OpenMarker \o Strip(d) \o CloseMarker \o PromptTail

\* the f-string of lines 50-58
BuildPrompt(d) ==
    Instruction \o OpenMarker \o d \o CloseMarker \o PromptTail

DiffCmd == << <<"git">>, <<"diff">>, <<"--staged">> >>
GeminiCmd(p) == << <<"gemini">>, <<"chat">>, p >>
CommitCmd(m) == << <<"git">>, <<"commit">>, <<"-m">>, m >>

\* click.echo(text) and click.echo(text, err=True)

Echo(text) == [err |-> FALSE, text |-> text]
\* a mutant of EchoErr: err=True is missing
EchoErrToStdout(text) == [err |-> FALSE, text |-> text]

EchoErr(text) == [err |-> TRUE, text |-> text]

MsgGeminiMissing1 == << "Error: The '", "gemini", "' CLI is not installed or not in your PATH." >>
MsgGeminiMissing2 == << "Please install it using: npm install -g @google/gemini-cli" >>
MsgAnalyzing(p) == << "Analyzing repository at: ", p >>
MsgNotARepo == << "Error: The provided path is not a Git repository." >>
MsgNoStaged == << "No staged changes to commit. Use 'git add' to stage your changes." >>
MsgSending == << "Sending staged changes to Gemini to generate a commit message..." >>
MsgSuggested == << "\n", "Suggested Commit Message" >>
MsgRule == << "---------------------------------" >>
MsgInvalid == << "Error: invalid input" >>
MsgAborted == << "Commit aborted by user." >>
MsgCommitting == << "Committing changes..." >>
MsgSuccess == << "\n", "Commit successful!" >>
MsgCmdError == << "\n", "An error occurred while running an external command:" >>
\* a mutant of MsgCommand: only the program name is printed
MsgCommandProgramOnly(cmd) == << "Command: " >> \o cmd[1]

MsgCommand(cmd) == << "Command: " >> \o Join(cmd, " ")
MsgErrorMessage(stderr) == << "Error Message: " >> \o stderr
MsgGitMissing == << "Error: '", "git", "' command not found. Make sure Git is installed and in your PATH." >>

\* a subprocess.run call: the argument vector, the working directory
\* ("inherit" when no cwd is given), and what became of it
Call(cmd, cwd) ==
    [cmd |-> cmd, cwd |-> cwd, result |-> "running", rc |-> 0,
     stdout |-> <<>>, stderr |-> <<>>]
NotFound(c) == [c EXCEPT !.result = "notfound"]
Completed(c, rc, so, se) ==
    [c EXCEPT !.result = IF rc = 0 THEN "ok" ELSE "fail",
              !.rc = rc, !.stdout = so, !.stderr = se]

LastCall == calls[Len(calls)]
SetLast(c) == [calls EXCEPT ![Len(calls)] = c]

NoExc == [type |-> "none", cmd |-> <<>>, stderr |-> <<>>]
CalledProcessError(c) == [type |-> "CalledProcessError", cmd |-> c.cmd, stderr |-> c.stderr]
FileNotFoundError == [type |-> "FileNotFoundError", cmd |-> <<>>, stderr |-> <<>>]

----------------------------------------------------------------------------
(* The run *)

Init ==
    /\ pc = "start"
    /\ path \in Paths
    /\ geminiOnPath \in BOOLEAN
    /\ hasGit \in BOOLEAN
    /\ checkedRepo = FALSE
    /\ calls = <<>>
    /\ out = <<>>
    /\ git_diff = <<>>
    /\ prompt = <<>>
    /\ commit_message = <<>>
    /\ prompts = 0
    /\ answer = "-"
    /\ exc = NoExc
    /\ raised = "none"

\* a mutant of CheckGemini: the hint is printed but the return is missing
CheckGeminiNoReturn ==
    /\ pc = "start"
    /\ IF ~geminiOnPath
       THEN out' = out \o << EchoErr(MsgGeminiMissing1), EchoErr(MsgGeminiMissing2),
                             Echo(MsgAnalyzing(path)) >>
       ELSE out' = Append(out, Echo(MsgAnalyzing(path)))
    /\ pc' = "check_repo"
    /\ UNCHANGED <<path, geminiOnPath, hasGit, checkedRepo, calls, git_diff,
                   prompt, commit_message, prompts, answer, exc, raised>>

\* lines 19-28: the preflight check for the gemini executable
CheckGemini ==
    /\ pc = "start"
    /\ IF ~geminiOnPath
       THEN /\ out' = out \o << EchoErr(MsgGeminiMissing1), EchoErr(MsgGeminiMissing2) >>
            /\ pc' = "done"
       ELSE /\ out' = Append(out, Echo(MsgAnalyzing(path)))
            /\ pc' = "check_repo"
    /\ UNCHANGED <<path, geminiOnPath, hasGit, checkedRepo, calls, git_diff,
                   prompt, commit_message, prompts, answer, exc, raised>>

\* a mutant of CheckRepo: the report is made but the return is missing
CheckRepoNoReturn ==
    /\ pc = "check_repo"
    /\ checkedRepo' = TRUE
    /\ IF ~hasGit
       THEN out' = Append(out, EchoErr(MsgNotARepo))
       ELSE out' = out
    /\ pc' = "run_diff"
    /\ UNCHANGED <<path, geminiOnPath, hasGit, calls, git_diff, prompt,
                   commit_message, prompts, answer, exc, raised>>

\* lines 30-33: the repository check
CheckRepo ==
    /\ pc = "check_repo"
    /\ checkedRepo' = TRUE
    /\ IF ~hasGit
       THEN /\ out' = Append(out, EchoErr(MsgNotARepo))
            /\ pc' = "done"
       ELSE /\ out' = out
            /\ pc' = "run_diff"
    /\ UNCHANGED <<path, geminiOnPath, hasGit, calls, git_diff, prompt,
                   commit_message, prompts, answer, exc, raised>>

\* subprocess.run(cmd, cwd=cwd, ...) up to the start of the child: the
\* executable is found and the child runs, or FileNotFoundError is raised.
\* Whether the executable is found is the environment's choice at this
\* moment (shutil.which at line 19 decides nothing about it).
StartProcess(at, cmd, cwd, waiting) ==
    /\ pc = at
    /\ \E found \in BOOLEAN :
          IF found
          THEN /\ calls' = Append(calls, Call(cmd, cwd))
               /\ pc' = waiting
               /\ exc' = exc
          ELSE /\ calls' = Append(calls, NotFound(Call(cmd, cwd)))
               /\ pc' = "except"
               /\ exc' = FileNotFoundError
    /\ UNCHANGED <<path, geminiOnPath, hasGit, checkedRepo, out, git_diff,
                   prompt, commit_message, prompts, answer, raised>>

\* lines 35-41: git diff --staged is started in the target directory
StartDiff == StartProcess("run_diff", DiffCmd, path, "diff_wait")

\* a mutant of IsEmptyDiff: the emptiness test is missing
IsEmptyDiffNever(d) == FALSE

\* line 44: not git_diff
IsEmptyDiff(d) == d = <<>>

\* a mutant of FinishDiff: check=True is missing, so a failed git diff is
\* treated like a successful one
FinishDiffUnchecked ==
    /\ pc = "diff_wait"
    /\ \E rc \in ReturnCodes, so \in Diffs, se \in Stderrs :
          /\ calls' = SetLast(Completed(LastCall, rc, so, IF rc = 0 THEN <<>> ELSE se))
          /\ git_diff' = so
          /\ exc' = exc
          /\ IF IsEmptyDiff(so)
             THEN /\ out' = Append(out, Echo(MsgNoStaged))
                  /\ prompt' = prompt
                  /\ pc' = "done"
             ELSE /\ prompt' = BuildPrompt(so)
                  /\ out' = Append(out, Echo(MsgSending))
                  /\ pc' = "run_gemini"
    /\ UNCHANGED <<path, geminiOnPath, hasGit, checkedRepo, commit_message,
                   prompts, answer, raised>>

\* lines 35-60: git diff --staged completes; its stdout is captured, tested
\* for emptiness and interpolated into the prompt
FinishDiff ==
    /\ pc = "diff_wait"
    /\ \E rc \in ReturnCodes, so \in Diffs, se \in Stderrs :
          IF rc # 0
          THEN /\ so = <<>>
               /\ calls' = SetLast(Completed(LastCall, rc, so, se))
               /\ exc' = CalledProcessError(LastCall')
               /\ pc' = "except"
               /\ UNCHANGED <<git_diff, prompt, out>>
          ELSE /\ se = <<>>
               /\ calls' = SetLast(Completed(LastCall, rc, so, se))
               /\ git_diff' = so
               /\ exc' = exc
               /\ IF IsEmptyDiff(so)
                  THEN /\ out' = Append(out, Echo(MsgNoStaged))
                       /\ prompt' = prompt
                       /\ pc' = "done"
                  ELSE /\ prompt' = BuildPrompt(so)
                       /\ out' = Append(out, Echo(MsgSending))
                       /\ pc' = "run_gemini"
    /\ UNCHANGED <<path, geminiOnPath, hasGit, checkedRepo, commit_message,
                   prompts, answer, raised>>

\* lines 62-64: gemini chat <prompt> is started (no cwd argument)
StartGemini == StartProcess("run_gemini", GeminiCmd(prompt), "inherit", "gemini_wait")

\* lines 62-70: gemini completes; its stdout is trimmed and displayed
FinishGemini ==
    /\ pc = "gemini_wait"
    /\ \E rc \in ReturnCodes, so \in GeminiStdouts, se \in Stderrs :
          IF rc # 0
          THEN /\ so = <<>>
               /\ calls' = SetLast(Completed(LastCall, rc, so, se))
               /\ exc' = CalledProcessError(LastCall')
               /\ pc' = "except"
               /\ UNCHANGED <<commit_message, out>>
          ELSE /\ se = <<>>
               /\ calls' = SetLast(Completed(LastCall, rc, so, se))
               /\ commit_message' = Strip(so)
               /\ exc' = exc
               /\ out' = out \o << Echo(MsgSuggested), Echo(MsgRule),
                                   Echo(Strip(so)), Echo(MsgRule) >>
               /\ pc' = "confirm"
    /\ UNCHANGED <<path, geminiOnPath, hasGit, checkedRepo, git_diff, prompt,
                   prompts, answer, raised>>

\* a mutant of ConfirmValue: the answer is ignored
ConfirmValueAlwaysTrue(ans) == "true"

\* click.confirm(..., default=True) on one line of input, lines 75-77:
\* y/yes is True, n/no is False, a bare answer is the default (True),
\* anything else is asked again
ConfirmValue(ans) ==
    IF ans \in {"y", "yes"} THEN "true"
    ELSE IF ans \in {"n", "no"} THEN "false"
    ELSE IF ans = "" THEN "true"
    ELSE "invalid"

\* lines 75-82: the confirmation gate.  End of input or an interrupt makes
\* click.confirm raise click.Abort, which no handler of cli catches.
Confirm ==
    /\ pc = "confirm"
    /\ \E ans \in Answers :
          /\ prompts' = prompts + 1
          /\ IF ans = "EOF"
             THEN /\ raised' = "Abort"
                  /\ answer' = ans
                  /\ out' = out
                  /\ pc' = "done"
             ELSE /\ raised' = raised
                  /\ IF ConfirmValue(ans) = "invalid"
                     THEN /\ prompts < MaxInvalid
                          /\ out' = Append(out, Echo(MsgInvalid))
                          /\ answer' = answer
                          /\ pc' = pc
                     ELSE /\ answer' = ans
                          /\ IF ConfirmValue(ans) = "false"
                             THEN /\ out' = Append(out, Echo(MsgAborted))
                                  /\ pc' = "done"
                             ELSE /\ out' = Append(out, Echo(MsgCommitting))
                                  /\ pc' = "run_commit"
    /\ UNCHANGED <<path, geminiOnPath, hasGit, checkedRepo, calls, git_diff,
                   prompt, commit_message, exc>>

\* lines 83-89: git commit -m <message> is started in the target directory
StartCommit == StartProcess("run_commit", CommitCmd(commit_message), path, "commit_wait")

\* lines 83-93: git commit completes; on success its stdout is shown
FinishCommit ==
    /\ pc = "commit_wait"
    /\ \E rc \in ReturnCodes, so \in CommitStdouts, se \in Stderrs :
          IF rc # 0
          THEN /\ so = <<>>
               /\ calls' = SetLast(Completed(LastCall, rc, so, se))
               /\ exc' = CalledProcessError(LastCall')
               /\ pc' = "except"
               /\ out' = out
          ELSE /\ se = <<>>
               /\ calls' = SetLast(Completed(LastCall, rc, so, se))
               /\ exc' = exc
               /\ out' = out \o << Echo(MsgSuccess), Echo(so) >>
               /\ pc' = "done"
    /\ UNCHANGED <<path, geminiOnPath, hasGit, checkedRepo, git_diff, prompt,
                   commit_message, prompts, answer, raised>>

\* lines 95-98: except subprocess.CalledProcessError
HandleCalledProcessError ==
    /\ pc = "except"
    /\ exc.type = "CalledProcessError"
    /\ out' = out \o << EchoErr(MsgCmdError), EchoErr(MsgCommand(exc.cmd)),
                        EchoErr(MsgErrorMessage(exc.stderr)) >>
    /\ exc' = NoExc
    /\ pc' = "done"
    /\ UNCHANGED <<path, geminiOnPath, hasGit, checkedRepo, calls, git_diff,
                   prompt, commit_message, prompts, answer, raised>>

\* lines 99-103: except FileNotFoundError
HandleFileNotFoundError ==
    /\ pc = "except"
    /\ exc.type = "FileNotFoundError"
    /\ out' = Append(out, EchoErr(MsgGitMissing))
    /\ exc' = NoExc
    /\ pc' = "done"
    /\ UNCHANGED <<path, geminiOnPath, hasGit, checkedRepo, calls, git_diff,
                   prompt, commit_message, prompts, answer, raised>>

\* the exit status of the command: 0 when cli returns, 1 when click.Abort
\* escapes it (click's standalone mode)
ExitStatus == IF raised = "none" THEN 0 ELSE 1

Next ==
    \/ CheckGemini
    \/ CheckRepo
    \/ StartDiff
    \/ FinishDiff
    \/ StartGemini
    \/ FinishGemini
    \/ Confirm
    \/ StartCommit
    \/ FinishCommit
    \/ HandleCalledProcessError
    \/ HandleFileNotFoundError

Spec == Init /\ [][Next]_vars

----------------------------------------------------------------------------
(* Reading the histories *)

Done == pc = "done"
DiffCalls == {i \in DOMAIN calls : calls[i].cmd = DiffCmd}
GeminiCalls == {i \in DOMAIN calls : calls[i].cmd[1] = <<"gemini">>}
CommitCalls ==
    {i \in DOMAIN calls : calls[i].cmd[1] = <<"git">> /\ calls[i].cmd[2] = <<"commit">>}
Echoed(e) == \E i \in DOMAIN out : out[i] = e
LastEcho == out[Len(out)]
\* the last n echoes
EndsWith(es) ==
    /\ Len(out) >= Len(es)
    /\ SubSeq(out, Len(out) - Len(es) + 1, Len(out)) = es
Declined == answer \in {"n", "no"}
Accepted == answer \in {"", "y", "yes"}
\* m is s without its leading and trailing whitespace
IsTrimOf(m, s) ==
    /\ Len(m) <= Len(s)
    /\ \E a \in 0..(Len(s) - Len(m)) :
          /\ SubSeq(s, a + 1, a + Len(m)) = m
          /\ \A k \in 1..Len(s) : (k <= a \/ k > a + Len(m)) => s[k] \in Whitespace
    /\ m # <<>> => (m[1] \notin Whitespace /\ m[Len(m)] \notin Whitespace)

----------------------------------------------------------------------------
(* Claims *)

\* C1: once the user has declined the confirmation (n / no), the run is
\* over, it returned normally, its last report is "Commit aborted by
\* user.", and no git commit call was ever made.
C1_DeclineNeverCommits ==
    Declined =>
        /\ Done
        /\ raised = "none"
        /\ CommitCalls = {}
        /\ LastEcho = [err |-> FALSE, text |-> << "Commit aborted by user." >>]

C1_Witness == Declined /\ Done /\ prompts >= 1 /\ Len(calls) = 2

\* C2: at most three processes are ever started, each kind at most once,
\* in the order diff, gemini, commit; a process is started only when every
\* earlier one has completed with exit status 0; and a git commit call
\* exists only after a successful non-empty diff, a successful gemini call
\* and the user's confirmation.
C2_CommitOnlyAfterAll ==
    /\ Len(calls) <= 3
    /\ Cardinality(DiffCalls) <= 1
    /\ Cardinality(GeminiCalls) <= 1
    /\ Cardinality(CommitCalls) <= 1
    /\ \A i \in DOMAIN calls : i < Len(calls) => calls[i].result = "ok"
    /\ GeminiCalls # {} => (GeminiCalls = {2} /\ DiffCalls = {1})
    /\ CommitCalls # {} =>
          /\ CommitCalls = {3}
          /\ DiffCalls = {1}
          /\ calls[1].result = "ok" /\ calls[1].rc = 0 /\ calls[1].stdout # <<>>
          /\ GeminiCalls = {2}
          /\ calls[2].result = "ok" /\ calls[2].rc = 0
          /\ Accepted

C2_Witness == Done /\ Len(calls) = 3 /\ calls[3].result = "ok" /\ answer = "yes"

\* C3: when git diff --staged succeeded with empty output, the run is over,
\* it returned normally, its last report is the no-staged-changes message,
\* and the diff call is the only process ever started.
C3_EmptyDiffStops ==
    (DiffCalls # {} /\ calls[1].result = "ok" /\ calls[1].stdout = <<>>) =>
        /\ Done
        /\ raised = "none"
        /\ Len(calls) = 1
        /\ GeminiCalls = {} /\ CommitCalls = {}
        /\ LastEcho = [err |-> FALSE,
                       text |-> << "No staged changes to commit. Use 'git add' to stage your changes." >>]

C3_Witness == Done /\ Len(calls) = 1 /\ calls[1].result = "ok" /\ calls[1].stdout = <<>>

\* C4 as stated: every finished run on a path without .git has reported
\* NotARepository and started no process.
C4_Original ==
    (Done /\ ~hasGit) =>
        /\ \E i \in DOMAIN out :
              out[i].text = << "Error: The provided path is not a Git repository." >>
        /\ calls = <<>>

\* C4 (amended): on a path without .git no process is ever started and no
\* prompt is shown; and when the gemini executable was found at the
\* preflight check, the finished run has printed the analyzing line
\* followed by the NotARepository report on the error stream, and
\* returned normally.
C4_NotARepoWhenGeminiFound ==
    ~hasGit =>
        /\ calls = <<>>
        /\ prompts = 0
        /\ (Done /\ geminiOnPath) =>
              /\ checkedRepo
              /\ raised = "none"
              /\ out = << [err |-> FALSE, text |-> << "Analyzing repository at: ", path >>],
                          [err |-> TRUE,
                           text |-> << "Error: The provided path is not a Git repository." >>] >>

C4_Witness == Done /\ ~hasGit /\ geminiOnPath /\ checkedRepo

\* C5: a call that exited non-zero is the last call of the run; the run
\* then ends normally, and its last three reports, on the error stream,
\* are the failure heading, the failing command line (arguments joined by
\* spaces) and the captured stderr.
C5_FailureReported ==
    \A i \in DOMAIN calls :
        calls[i].result = "fail" =>
            /\ i = Len(calls)
            /\ pc \in {"except", "done"}
            /\ Done =>
                  /\ raised = "none"
                  /\ EndsWith(<< [err |-> TRUE,
                                  text |-> << "\n", "An error occurred while running an external command:" >>],
                                 [err |-> TRUE,
                                  text |-> << "Command: " >> \o Join(calls[i].cmd, " ")],
                                 [err |-> TRUE,
                                  text |-> << "Error Message: " >> \o calls[i].stderr] >>)

C5_Witness ==
    /\ Done
    /\ Len(calls) = 3
    /\ calls[3].result = "fail"
    /\ calls[3].stderr = << "nothing to commit, working tree clean", "\n" >>

\* C6: when gemini is not on the search path, no process is ever started,
\* no prompt is shown and no repository check is made; the finished run
\* has printed exactly the two lines of the installation hint and returned
\* normally.
C6_MissingGeminiNoSideEffects ==
    ~geminiOnPath =>
        /\ pc \in {"start", "done"}
        /\ calls = <<>>
        /\ prompts = 0
        /\ ~checkedRepo
        /\ Done =>
              /\ raised = "none"
              /\ out = << [err |-> TRUE,
                           text |-> << "Error: The '", "gemini", "' CLI is not installed or not in your PATH." >>],
                          [err |-> TRUE,
                           text |-> << "Please install it using: npm install -g @google/gemini-cli" >>] >>

C6_Witness == Done /\ ~geminiOnPath /\ Len(out) = 2

\* C7: after a non-empty diff, a successful gemini call and the user's
\* confirmation (y, yes or a bare answer), git commit is called exactly
\* once, with -m <gemini's stdout without its surrounding whitespace> and
\* the target path as working directory; when it exits 0 the run ends
\* with the success line followed by the commit's stdout.
C7_CommitWithTrimmedMessage ==
    (GeminiCalls # {} /\ calls[2].result = "ok" /\ Accepted) =>
        /\ pc \in {"run_commit", "commit_wait", "except", "done"}
        /\ pc # "run_commit" =>
              /\ Cardinality(CommitCalls) = 1
              /\ Len(calls) = 3
              /\ Len(calls[3].cmd) = 4
              /\ calls[3].cmd[3] = <<"-m">>
              /\ IsTrimOf(calls[3].cmd[4], calls[2].stdout)
              /\ calls[3].cwd = path
              /\ calls[3].result = "ok" =>
                    /\ Done
                    /\ EndsWith(<< [err |-> FALSE, text |-> << "\n", "Commit successful!" >>],
                                   [err |-> FALSE, text |-> calls[3].stdout] >>)

C7_Witness ==
    /\ Done
    /\ answer = ""
    /\ Len(calls) = 3
    /\ calls[3].result = "ok"
    /\ calls[3].stdout # <<>>
    /\ calls[3].cmd[4] # <<>>
    /\ calls[3].cmd[4] # calls[2].stdout

\* the texts of the error reports
IsErrorReport(t) ==
    \/ t \in { << "Error: The '", "gemini", "' CLI is not installed or not in your PATH." >>,
               << "Please install it using: npm install -g @google/gemini-cli" >>,
               << "Error: The provided path is not a Git repository." >>,
               << "\n", "An error occurred while running an external command:" >>,
               << "Error: '", "git", "' command not found. Make sure Git is installed and in your PATH." >> }
    \/ (t # <<>> /\ t[1] \in {"Command: ", "Error Message: "})

\* the run ended in an error outcome: missing gemini, not a repository, a
\* process that exited non-zero, an executable that was not found
ErrorOutcome ==
    \/ ~geminiOnPath
    \/ ~hasGit
    \/ \E i \in DOMAIN calls : calls[i].result \in {"fail", "notfound"}

\* C8: a finished run that was not cut short by end of input or an
\* interrupt at the prompt returned normally with exit status 0 and no
\* exception in flight; every error report is written to the error
\* stream, and a run that ended in an error outcome ended with one.
C8_HandledOutcomesExitZero ==
    /\ (Done /\ answer # "EOF") =>
          /\ raised = "none"
          /\ ExitStatus = 0
          /\ exc.type = "none"
    /\ \A i \in DOMAIN out : IsErrorReport(out[i].text) => out[i].err
    /\ (Done /\ ErrorOutcome) => (IsErrorReport(LastEcho.text) /\ LastEcho.err)

C8_Witness ==
    /\ Done
    /\ Len(calls) = 3
    /\ calls[3].result = "notfound"
    /\ ExitStatus = 0
    /\ LastEcho.err

\* a dedicated not-installed report
IsNotInstalledReport(t) ==
    /\ Len(t) = 3
    /\ \/ t[1] = "Error: The '" /\ t[3] = "' CLI is not installed or not in your PATH."
       \/ t[1] = "Error: '" /\ t[3] = "' command not found. Make sure Git is installed and in your PATH."

\* C9: in a finished run in which an executable was not found (gemini at
\* the preflight check, or the program of a subprocess call), a
\* not-installed report naming that program is on the error stream, the
\* generic command-failure report is not, and the call that failed to
\* start is the last one.
C9_MissingToolNamed ==
    Done =>
        /\ ~geminiOnPath =>
              \E j \in DOMAIN out :
                  out[j].err /\ IsNotInstalledReport(out[j].text) /\ out[j].text[2] = "gemini"
        /\ \A i \in DOMAIN calls :
              calls[i].result = "notfound" =>
                  /\ i = Len(calls)
                  /\ \E j \in DOMAIN out :
                        /\ out[j].err
                        /\ IsNotInstalledReport(out[j].text)
                        /\ << out[j].text[2] >> = calls[i].cmd[1]
                  /\ \A j \in DOMAIN out :
                        out[j].text # << "\n", "An error occurred while running an external command:" >>

\* C10: gemini is called with three arguments, the third being the prompt:
\* the instruction text, the opening marker, the stdout of the one git
\* diff call unchanged, the closing marker, and the closing line; that
\* stdout is non-empty and is the value held in git_diff.
C10_PromptEmbedsDiffVerbatim ==
    \A i \in GeminiCalls :
        LET p == calls[i].cmd[3]
            d == calls[1].stdout
            a == Len(Instruction)
            b == a + Len(OpenMarker)
            c == b + Len(d)
            e == c + Len(CloseMarker)
        IN  /\ Len(calls[i].cmd) = 3
            /\ calls[i].cmd[2] = <<"chat">>
            /\ DiffCalls = {1}
            /\ d # <<>>
            /\ d = git_diff
            /\ p = prompt
            /\ Len(p) = e + Len(PromptTail)
            /\ SubSeq(p, 1, a) = Instruction
            /\ SubSeq(p, a + 1, b) = << "--- GIT DIFF ---", "\n" >>
            /\ SubSeq(p, b + 1, c) = d
            /\ SubSeq(p, c + 1, e) = << "\n", "--- END GIT DIFF ---", "\n", "\n" >>
            /\ SubSeq(p, e + 1, Len(p)) = << "Commit message:" >>

C10_Witness ==
    /\ GeminiCalls = {2}
    /\ calls[2].result = "ok"
    /\ calls[1].stdout = << "\n", "d" >>
====
